---- MODULE Spec2Model ----
(***************************************************************************)
(* Model of news_agent.py: clean_filename, fetch_smart_content,            *)
(* get_ai_summary and fetch_mode, with the aggregated-URL table written by *)
(* extract_urls.py as input.                                               *)
(*                                                                         *)
(* Strings whose characters the code inspects (URLs, Content-Type headers, *)
(* titles, lines of the aggregated file) are sequences of one-character    *)
(* strings.  Extracted text is known to the code only through its length   *)
(* and truthiness, so a text is a record [by, len]: the stage that         *)
(* produced it and len(text).                                              *)
(***************************************************************************)
EXTENDS Integers, Sequences, FiniteSets, TLC

VARIABLES
    aggregated,  \* config.AGGREGATED_FILE: Absent, or the sequence of its lines
    notes,       \* config.ARTICLES_DIR: note path -> content of that file
    run          \* per fetch_mode run: its position and its local variables

vars == <<aggregated, notes, run>>

-----------------------------------------------------------------------------
(* Python values *)

\* Python's None where a string is expected (a title, a summary).
None == <<"None">>

\* Python's None where an extracted text is expected.
NoText == [by |-> "None", len |-> 0]

\* A pair not yet returned.
Pending == [title |-> <<"Pending">>, text |-> [by |-> "Pending", len |-> 0]]

\* bool(s) for a string or None.
Truthy(s) == s # None /\ s # <<>>

\* bool(text) for an extracted text or None.
TruthyText(t) == t # NoText /\ t.len > 0

Min(a, b) == IF a < b THEN a ELSE b

-----------------------------------------------------------------------------
(* str methods, over sequences of characters *)

LowerCase == <<"a","b","c","d","e","f","g","h","i","j","k","l","m",
               "n","o","p","q","r","s","t","u","v","w","x","y","z">>
UpperCase == <<"A","B","C","D","E","F","G","H","I","J","K","L","M",
               "N","O","P","Q","R","S","T","U","V","W","X","Y","Z">>
Digits == {"0","1","2","3","4","5","6","7","8","9"}
Whitespace == {" ", "\t", "\n"}

Range(f) == {f[i] : i \in DOMAIN f}

\* c.isalnum()
IsAlnum(c) == c \in Range(LowerCase) \cup Range(UpperCase) \cup Digits

\* c.lower()
LowerChar(c) ==
    IF c \in Range(UpperCase)
    THEN LowerCase[CHOOSE i \in DOMAIN UpperCase : UpperCase[i] = c]
    ELSE c

\* s.lower()
Lower(s) == [i \in DOMAIN s |-> LowerChar(s[i])]

\* s.endswith(suffix)
EndsWith(s, suffix) ==
    /\ Len(suffix) <= Len(s)
    /\ SubSeq(s, Len(s) - Len(suffix) + 1, Len(s)) = suffix

\* s.startswith(prefix)
StartsWith(s, prefix) ==
    /\ Len(prefix) <= Len(s)
    /\ SubSeq(s, 1, Len(prefix)) = prefix

\* sub in s
Contains(s, sub) ==
    \E i \in 1..(Len(s) - Len(sub) + 1) : SubSeq(s, i, i + Len(sub) - 1) = sub

\* s.rstrip()
RECURSIVE RStrip(_)
RStrip(s) ==
    IF s # <<>> /\ s[Len(s)] \in Whitespace
    THEN RStrip(SubSeq(s, 1, Len(s) - 1))
    ELSE s

\* s.lstrip()
RECURSIVE LStrip(_)
LStrip(s) ==
    IF s # <<>> /\ Head(s) \in Whitespace THEN LStrip(Tail(s)) ELSE s

\* s.strip()
Strip(s) == LStrip(RStrip(s))

\* s.replace(old, new), old not empty: leftmost non-overlapping occurrences
RECURSIVE Replace(_, _, _)
Replace(s, old, new) ==
    IF s = <<>> THEN <<>>
    ELSE IF StartsWith(s, old)
         THEN new \o Replace(SubSeq(s, Len(old) + 1, Len(s)), old, new)
         ELSE <<Head(s)>> \o Replace(Tail(s), old, new)

\* s.split(sep) for a one-character sep: a sequence of strings
RECURSIVE Split(_, _)
Split(s, sep) ==
    IF \A i \in DOMAIN s : s[i] # sep THEN <<s>>
    ELSE LET k == CHOOSE i \in DOMAIN s :
                      s[i] = sep /\ \A j \in 1..(i - 1) : s[j] # sep
         IN  <<SubSeq(s, 1, k - 1)>> \o Split(SubSeq(s, k + 1, Len(s)), sep)

\* s[:n]
Take(s, n) == SubSeq(s, 1, Min(n, Len(s)))

-----------------------------------------------------------------------------
(* clean_filename *)

\* The 60 of safe_title[:60].
FilenameMax == 60

keepcharacters == {" ", ".", "_"}

\* The characters line 29 keeps.
Kept(c) == IsAlnum(c) \/ c \in keepcharacters

\* "".join(c for c in title if c.isalnum() or c in keepcharacters)
RECURSIVE JoinKept(_)
JoinKept(title) ==
    IF title = <<>> THEN <<>>
    ELSE IF Kept(Head(title)) THEN <<Head(title)>> \o JoinKept(Tail(title))
    ELSE JoinKept(Tail(title))

\* clean_filename with the truncation applied before the trailing
\* whitespace is trimmed and the spaces are replaced.
clean_filename_truncate_first(title) ==
    Replace(RStrip(Take(JoinKept(title), FilenameMax)), <<" ">>, <<"_">>)

clean_filename(title) ==
    LET safe_title == RStrip(JoinKept(title))
    IN  Take(Replace(safe_title, <<" ">>, <<"_">>), FilenameMax)

-----------------------------------------------------------------------------
(* fetch_smart_content: its constants and pure steps *)

\* The 300 of len(article.text) > 300.
PrimaryMinLen == 300

PdfDocument == <<"P","D","F"," ","D","o","c","u","m","e","n","t">>
WebCapture == <<"W","e","b","_","C","a","p","t","u","r","e">>
DotPdf == <<".","p","d","f">>
DotHtml == <<".","h","t","m","l">>
ApplicationPdf == <<"a","p","p","l","i","c","a","t","i","o","n","/","p","d","f">>

\* return None, None
Sentinel == [title |-> None, text |-> NoText]

\* response.headers.get('Content-Type', '').lower(); header is None when the
\* response carries no Content-Type.
ContentTypeOf(header) == Lower(IF header = None THEN <<>> ELSE header)

\* Line 47 without the lower() of the URL.
IsPdf_case_sensitive(url, content_type) ==
    EndsWith(url, DotPdf) \/ Contains(content_type, ApplicationPdf)

\* url.lower().endswith('.pdf') or 'application/pdf' in content_type
IsPdf(url, content_type) ==
    EndsWith(Lower(url), DotPdf) \/ Contains(content_type, ApplicationPdf)

\* Line 73 with the threshold off by one.
PrimaryAccepts_off_by_one(text) == text.len > PrimaryMinLen + 1

\* len(article.text) > 300
PrimaryAccepts(text) == text.len > PrimaryMinLen

\* len of the text the loop of lines 52-54 builds: each page's text and "\n".
RECURSIVE PdfTextLen(_)
PdfTextLen(pages) ==
    IF pages = <<>> THEN 0 ELSE Head(pages) + 1 + PdfTextLen(Tail(pages))

\* Lines 57-61 with the metadata title returned without the placeholder.
PdfResult_no_placeholder(pages, meta_title) ==
    [title |-> meta_title, text |-> [by |-> "pdf", len |-> PdfTextLen(pages)]]

\* Lines 50-61: the pair the PDF path returns for a parsed document whose
\* pages have these text lengths and whose metadata title is meta_title
\* (None: no metadata, or no title in it).
PdfResult(pages, meta_title) ==
    [title |-> IF Truthy(meta_title) THEN meta_title ELSE PdfDocument,
     text  |-> [by |-> "pdf", len |-> PdfTextLen(pages)]]

\* Lines 93-94 returning the primary extractor's title with the fallback's
\* text.
FallbackResult_mixed(primary, soup_title, clean_text) ==
    [title |-> IF primary = Pending THEN soup_title ELSE primary.title,
     text  |-> clean_text]

\* Lines 93-94: the pair the fallback path returns; soup_title is
\* soup.title.string, or "Web_Capture" without a <title>.
FallbackResult(primary, soup_title, clean_text) ==
    [title |-> soup_title, text |-> clean_text]

\* Where an exception raised at a site goes: the except clause that catches
\* it.  Sites: "get" (lines 41-42, caught at 96), "pdf" (50-61, caught at
\* 62), "primary" (69-74, caught at 75), "fallback" (80-94, caught at 96),
\* "summary" (108-115, caught at 116), "fetch_mode" (138-178, caught at 180).
HandlerOf_transport_escapes(site) ==
    CASE site = "get"        -> "escape"
      [] site = "pdf"        -> "sentinel"
      [] site = "primary"    -> "fallback"
      [] site = "fallback"   -> "sentinel"
      [] site = "summary"    -> "none"
      [] site = "fetch_mode" -> "continue"

HandlerOf_summary_escapes(site) ==
    CASE site = "get"        -> "sentinel"
      [] site = "pdf"        -> "sentinel"
      [] site = "primary"    -> "fallback"
      [] site = "fallback"   -> "sentinel"
      [] site = "summary"    -> "escape"
      [] site = "fetch_mode" -> "continue"

HandlerOf_pdf_falls_through(site) ==
    CASE site = "get"        -> "sentinel"
      [] site = "pdf"        -> "fallback"
      [] site = "primary"    -> "fallback"
      [] site = "fallback"   -> "sentinel"
      [] site = "summary"    -> "none"
      [] site = "fetch_mode" -> "continue"

HandlerOf(site) ==
    CASE site = "get"        -> "sentinel"
      [] site = "pdf"        -> "sentinel"
      [] site = "primary"    -> "fallback"
      [] site = "fallback"   -> "sentinel"
      [] site = "summary"    -> "none"
      [] site = "fetch_mode" -> "continue"

-----------------------------------------------------------------------------
(* fetch_mode: its constants and pure steps *)

\* The 5 of urls_to_process[:5].
ProcessLimit == 5

\* The 100 of len(text) < 100.
CallerMinLen == 100

Http == <<"h","t","t","p">>

\* Lines 130-133: what one line of the file adds to urls_to_process
\* (parts[3] is the fourth element: Python counts from 0).
UrlOfLine(line) ==
    IF Contains(line, <<"|">>) /\ Contains(line, Http)
    THEN LET split == Split(line, "|")
             parts == [i \in DOMAIN split |-> Strip(split[i])]
         IN  IF Len(parts) >= 4 THEN <<parts[4]>> ELSE <<>>
    ELSE <<>>

\* Lines 127-133
RECURSIVE ReadUrls(_)
ReadUrls(lines) ==
    IF lines = <<>> THEN <<>> ELSE UrlOfLine(Head(lines)) \o ReadUrls(Tail(lines))

\* Line 136 without the cap.
Limited_uncapped(urls_to_process) == urls_to_process

\* urls_to_process[:5]
Limited(urls_to_process) == Take(urls_to_process, ProcessLimit)

\* Line 143 testing the primary extractor's threshold.
Inaccessible_primary_threshold(text) ==
    ~TruthyText(text) \/ text.len <= PrimaryMinLen

\* not text or len(text) < 100
Inaccessible(text) == ~TruthyText(text) \/ text.len < CallerMinLen

\* Lines 148-150: the title the note is named after.
NoteTitle(url, title) ==
    IF ~Truthy(title) \/ title = PdfDocument
    THEN LET segments == Split(url, "/")
         IN  Replace(Replace(segments[Len(segments)], DotPdf, <<>>), DotHtml, <<>>)
    ELSE title

\* os.path.join(config.ARTICLES_DIR, f"{safe_title}.md")
NotePath(safe_title) == <<"_articles/">> \o safe_title \o <<".","m","d">>

\* Lines 162-175: the url, the heading and the summary of the note (its
\* date and its excerpt of the text are left out).
NoteContent(url, title, summary) ==
    [url |-> url, title |-> title, summary |-> summary]

\* A note file opened for writing (line 176) and not written.
EmptyNote == [url |-> <<>>, title |-> <<>>, summary |-> <<>>]

\* not summary
NoSummary(summary) == ~Truthy(summary)

-----------------------------------------------------------------------------
(* Bounds and the inputs drawn from them *)

\* URL rows in the aggregated file: more than ProcessLimit.
MaxRows == 6

\* Pages of a PDF.
MaxPages == 2

\* The fetch_mode runs of the specification Spec.
Runs == {1}

\* URLs, in the order of the rows: an HTML page, a ".PDF" suffix in upper
\* case, ".pdf" before a query string, ".pdf" inside a query string, a URL
\* that holds the table's delimiter, and a PDF by suffix.
UrlPool ==
    << <<"h","t","t","p",":","/","/","h","/","n",".","h","t","m","l">>,
       <<"h","t","t","p",":","/","/","h","/","A",".","P","D","F">>,
       <<"h","t","t","p",":","/","/","h","/","b",".","p","d","f","?","x">>,
       <<"h","t","t","p",":","/","/","h","/","c","?","f",".","p","d","f">>,
       <<"h","t","t","p",":","/","/","h","/","a","|","b">>,
       <<"h","t","t","p",":","/","/","h","/","a",".","p","d","f">> >>

\* Content-Type headers of a response; None: no such header.
Headers ==
    { None,
      <<"t","e","x","t","/","h","t","m","l">>,
      <<"a","p","p","l","i","c","a","t","i","o","n","/","p","d","f">>,
      <<"A","p","p","l","i","c","a","t","i","o","n","/","P","D","F",";"," ","q">> }

NewsTitle == <<"N","e","w","s",".","1">>

\* reader.metadata.title; None: no metadata or no title in it.
PdfMetaTitles == {None, <<>>, NewsTitle}

\* article.title
ArticleTitles == {<<>>, NewsTitle}

\* soup.title.string (None for a <title> without a single string), or
\* "Web_Capture" without a <title>.
SoupTitles == {None, WebCapture}

\* len(page.extract_text()) of one page.
PageLens == {0, (CallerMinLen \div 2) - 1}

RECURSIVE SeqsUpTo(_, _)
SeqsUpTo(S, n) ==
    IF n = 0 THEN {<<>>}
    ELSE LET shorter == SeqsUpTo(S, n - 1)
         IN  shorter \cup {Append(q, x) : q \in shorter, x \in S}

PdfDocuments == SeqsUpTo(PageLens, MaxPages)

\* len(article.text)
ArticleLens == {0, PrimaryMinLen, PrimaryMinLen + 1}

\* len(clean_text)
CleanTextLens == {0, CallerMinLen - 1, CallerMinLen}

\* response.choices[0].message.content: the service samples its answer, so
\* two calls for the same article need not return the same text. The calls
\* of one run return that run's text, by which the writer of a note is told
\* from the note.
Summaries == << <<"S">>, <<"T">> >>
Completions(r) == {None, <<>>, Summaries[r]}

\* extract_urls.py, line 80 and line 82: the lines of the aggregated file.
TitleLine ==
    <<"#"," ","A","g","g","r","e","g","a","t","e","d"," ","U","R","L","s","\n">>
BlankLine == <<"\n">>
HeaderLine ==
    <<"|"," ","D","a","t","e"," ","|"," ","S","o","u","r","c","e"," ","N","o",
      "t","e"," ","|"," ","U","R","L"," ","|","\n">>
SeparatorLine ==
    <<"|"," ",":","-","-","-"," ","|"," ",":","-","-","-"," ","|"," ",":","-",
      "-","-"," ","|","\n">>
NoteDate == <<"2","0","2","4","-","0","1","-","0","2">>

\* f"| {date} | {source} | {url} |\n" with source f"[[{date}]]"
Row(date, url) ==
    <<"|"," ">> \o date \o <<" ","|"," ","[","[">> \o date
        \o <<"]","]"," ","|"," ">> \o url \o <<" ","|","\n">>

\* The file with n rows, the i-th row holding the i-th URL of the pool
\* (the pool is read again from its start after its end).
AggregatedLines(n) ==
    <<TitleLine, BlankLine, HeaderLine, SeparatorLine>>
        \o [i \in 1..n |-> Row(NoteDate, UrlPool[((i - 1) % Len(UrlPool)) + 1])]

\* A note that an earlier run left in ARTICLES_DIR.
OldNote == [url |-> <<"o","l","d">>, title |-> NewsTitle, summary |-> <<"S">>]

\* The notes ARTICLES_DIR may hold when a run starts.
InitialNotes ==
    { [p \in {} |-> OldNote],
      [p \in {NotePath(clean_filename(NewsTitle))} |-> OldNote] }

-----------------------------------------------------------------------------
(* State *)

\* The locals of fetch_smart_content are gone once fetch_mode holds the
\* pair it returned (line 141).
Returned(rec) ==
    [rec EXCEPT !.header = None, !.content_type = None, !.kind = "None",
                !.invoked = {},
                !.raised = {}, !.primary = Pending, !.fallback = Pending]

\* The end of an iteration of the loop of line 136: its locals are not read
\* again before the next iteration assigns them.
Continue(rec, outcome) ==
    [Returned(rec) EXCEPT !.result = Pending, !.title = None,
                          !.safe_title = None, !.summary = None,
                          !.outcome = outcome, !.pc = "loop"]

InitRun ==
    [pc |-> "start", urls_to_process |-> <<>>, idx |-> 0, url |-> None,
     header |-> None, content_type |-> None, kind |-> "None", invoked |-> {}, raised |-> {},
     primary |-> Pending, fallback |-> Pending, result |-> Pending,
     title |-> None, safe_title |-> None, summary |-> None,
     outcome |-> "None",
     escaped |-> {}, fetched |-> <<>>]

Init ==
    /\ \E exists \in BOOLEAN, n \in 0..MaxRows :
           aggregated = [exists |-> exists,
                         lines  |-> IF exists THEN AggregatedLines(n) ELSE <<>>]
    /\ notes \in InitialNotes
    /\ run = [r \in Runs |-> InitRun]

-----------------------------------------------------------------------------
(* Actions *)

Goto(r, rec) == run' = [run EXCEPT ![r] = rec]

\* An exception reaching the body of the loop of fetch_mode (lines 137-181).
Caught(rec) ==
    IF HandlerOf("fetch_mode") = "continue"
    THEN Continue(rec, "failed")
    ELSE [rec EXCEPT !.escaped = @ \cup {"fetch_mode"}, !.pc = "aborted"]

\* An exception raised at a site of fetch_smart_content.
Raised(rec, site) ==
    LET at == [rec EXCEPT !.raised = @ \cup {site}]
    IN  CASE HandlerOf(site) = "sentinel" ->
                 [at EXCEPT !.result = Sentinel, !.pc = "gate"]
          [] HandlerOf(site) = "fallback" ->
                 [at EXCEPT !.pc = "fallback"]
          [] OTHER ->
                 Caught([at EXCEPT !.escaped = @ \cup {"fetch_smart_content"}])

\* Lines 120-133: the file is missing, or its URLs are read.
Start(r) ==
    /\ run[r].pc = "start"
    /\ IF ~aggregated.exists
       THEN Goto(r, [run[r] EXCEPT !.pc = "done"])
       ELSE Goto(r, [run[r] EXCEPT !.urls_to_process = ReadUrls(aggregated.lines),
                                   !.pc = "loop"])
    /\ UNCHANGED <<aggregated, notes>>

\* Lines 136-141: the next URL of the capped list, and the call of
\* fetch_smart_content(url).
NextUrl(r) ==
    /\ run[r].pc = "loop"
    /\ run[r].idx < Len(Limited(run[r].urls_to_process))
    /\ LET url == Limited(run[r].urls_to_process)[run[r].idx + 1]
       IN  Goto(r, [run[r] EXCEPT !.idx = @ + 1, !.url = url,
                                  !.fetched = Append(@, url),
                                  !.outcome = "None", !.pc = "get"])
    /\ UNCHANGED <<aggregated, notes>>

\* Line 136: the list is exhausted.
Finish(r) ==
    /\ run[r].pc = "loop"
    /\ run[r].idx >= Len(Limited(run[r].urls_to_process))
    /\ Goto(r, [run[r] EXCEPT !.pc = "done"])
    /\ UNCHANGED <<aggregated, notes>>

\* Lines 41-42: requests.get and raise_for_status fail.
GetFails(r) ==
    /\ run[r].pc = "get"
    /\ Goto(r, Raised(run[r], "get"))
    /\ UNCHANGED <<aggregated, notes>>

\* Lines 41-47: the response arrives and is classified.
GetResponds(r) ==
    /\ run[r].pc = "get"
    /\ \E header \in Headers :
           LET content_type == ContentTypeOf(header)
               pdf == IsPdf(run[r].url, content_type)
           IN  Goto(r, [run[r] EXCEPT !.header = header,
                                      !.content_type = content_type,
                                      !.kind = IF pdf THEN "PDF" ELSE "HTML",
                                      !.pc = IF pdf THEN "pdf" ELSE "primary"])
    /\ UNCHANGED <<aggregated, notes>>

\* Lines 49-64: the PDF extractor raises.
PdfFails(r) ==
    /\ run[r].pc = "pdf"
    /\ Goto(r, Raised([run[r] EXCEPT !.header = None, !.content_type = None,
                                     !.invoked = @ \cup {"pdf"}], "pdf"))
    /\ UNCHANGED <<aggregated, notes>>

\* Lines 49-61: the PDF extractor returns.
PdfParses(r) ==
    /\ run[r].pc = "pdf"
    /\ \E pages \in PdfDocuments, meta_title \in PdfMetaTitles :
           Goto(r, [run[r] EXCEPT !.header = None, !.content_type = None,
                                  !.invoked = @ \cup {"pdf"},
                                  !.result = PdfResult(pages, meta_title),
                                  !.pc = "gate"])
    /\ UNCHANGED <<aggregated, notes>>

\* Lines 68-76: the primary extractor raises.
PrimaryFails(r) ==
    /\ run[r].pc = "primary"
    /\ Goto(r, Raised([run[r] EXCEPT !.header = None, !.content_type = None,
                                     !.invoked = @ \cup {"primary"}], "primary"))
    /\ UNCHANGED <<aggregated, notes>>

\* Lines 68-74: the primary extractor returns, and its text is long enough
\* or not.
PrimaryParses(r) ==
    /\ run[r].pc = "primary"
    /\ \E title \in ArticleTitles, len \in ArticleLens :
           LET article == [title |-> title,
                           text  |-> [by |-> "primary", len |-> len]]
               called == [run[r] EXCEPT !.header = None, !.content_type = None,
                                        !.invoked = @ \cup {"primary"},
                                        !.primary = article]
           IN  IF PrimaryAccepts(article.text)
               THEN Goto(r, [called EXCEPT !.result = article, !.pc = "gate"])
               ELSE Goto(r, [called EXCEPT !.pc = "fallback"])
    /\ UNCHANGED <<aggregated, notes>>

\* Lines 79-94 raise, caught at line 96.
FallbackFails(r) ==
    /\ run[r].pc = "fallback"
    /\ Goto(r, Raised([run[r] EXCEPT !.invoked = @ \cup {"fallback"}], "fallback"))
    /\ UNCHANGED <<aggregated, notes>>

\* Lines 79-94: the fallback extractor returns.
FallbackParses(r) ==
    /\ run[r].pc = "fallback"
    /\ \E soup_title \in SoupTitles, len \in CleanTextLens :
           LET clean_text == [by |-> "fallback", len |-> len]
           IN  Goto(r, [run[r] EXCEPT
                   !.invoked = @ \cup {"fallback"},
                   !.fallback = [title |-> soup_title, text |-> clean_text],
                   !.result = FallbackResult(run[r].primary, soup_title, clean_text),
                   !.pc = "gate"])
    /\ UNCHANGED <<aggregated, notes>>

\* Lines 141-157: the pair is returned to fetch_mode; the length test, the
\* note's name and the test for an existing note.
Gate(r) ==
    /\ run[r].pc = "gate"
    /\ LET text == run[r].result.text
           title == NoteTitle(run[r].url, run[r].result.title)
           safe_title == clean_filename(title)
       IN  IF Inaccessible(text)
           THEN Goto(r, Continue(run[r], "inaccessible"))
           ELSE IF NotePath(safe_title) \in DOMAIN notes
           THEN Goto(r, Continue(run[r], "exists"))
           ELSE Goto(r, [Returned(run[r]) EXCEPT !.title = title,
                                                 !.safe_title = safe_title,
                                                 !.pc = "summary"])
    /\ UNCHANGED <<aggregated, notes>>

\* Lines 159-160 and 107-118 when the completion call raises.
SummaryFails(r) ==
    /\ run[r].pc = "summary"
    /\ IF HandlerOf("summary") = "none"
       THEN Goto(r, Continue(run[r], "nosummary"))
       ELSE Goto(r, Caught([run[r] EXCEPT !.escaped = @ \cup {"get_ai_summary"}]))
    /\ UNCHANGED <<aggregated, notes>>

\* Lines 159-160 and 107-115: the completion call returns.
SummaryReturns(r) ==
    /\ run[r].pc = "summary"
    /\ \E content \in Completions(r) :
           IF NoSummary(content)
           THEN Goto(r, Continue(run[r], "nosummary"))
           ELSE Goto(r, [run[r] EXCEPT !.summary = content, !.pc = "write"])
    /\ UNCHANGED <<aggregated, notes>>

\* Lines 162-178 with the existence test of line 155 repeated at the write.
WriteNote_if_absent(r) ==
    /\ run[r].pc = "write"
    /\ notes' = [p \in DOMAIN notes \cup {NotePath(run[r].safe_title)} |->
                    IF p \in DOMAIN notes
                    THEN notes[p]
                    ELSE NoteContent(run[r].url, run[r].title, run[r].summary)]
    /\ Goto(r, Continue(run[r], "saved"))
    /\ UNCHANGED aggregated

\* Lines 162-178: the note is written. open(note_path, 'w') creates the file
\* or truncates the one that is there.
WriteNote(r) ==
    /\ run[r].pc = "write"
    /\ notes' = [p \in DOMAIN notes \cup {NotePath(run[r].safe_title)} |->
                    IF p = NotePath(run[r].safe_title)
                    THEN NoteContent(run[r].url, run[r].title, run[r].summary)
                    ELSE notes[p]]
    /\ Goto(r, Continue(run[r], "saved"))
    /\ UNCHANGED aggregated

\* Line 176 raises: the file is not opened.
OpenFails(r) ==
    /\ run[r].pc = "write"
    /\ Goto(r, Caught(run[r]))
    /\ UNCHANGED <<aggregated, notes>>

\* Line 177 raises: the file was opened for writing, and is left empty.
WriteFails(r) ==
    /\ run[r].pc = "write"
    /\ notes' = [p \in DOMAIN notes \cup {NotePath(run[r].safe_title)} |->
                    IF p = NotePath(run[r].safe_title) THEN EmptyNote ELSE notes[p]]
    /\ Goto(r, Caught(run[r]))
    /\ UNCHANGED aggregated

Next ==
    \E r \in Runs :
        \/ Start(r)
        \/ NextUrl(r)
        \/ Finish(r)
        \/ GetFails(r)
        \/ GetResponds(r)
        \/ PdfFails(r)
        \/ PdfParses(r)
        \/ PrimaryFails(r)
        \/ PrimaryParses(r)
        \/ FallbackFails(r)
        \/ FallbackParses(r)
        \/ Gate(r)
        \/ SummaryFails(r)
        \/ SummaryReturns(r)
        \/ WriteNote(r)
        \/ OpenFails(r)
        \/ WriteFails(r)

Spec == Init /\ [][Next]_vars

-----------------------------------------------------------------------------
(* Two runs of the script at once: `python news_agent.py fetch` started
   twice. Each run is a process of its own with its own locals; the two share
   the aggregated file and ARTICLES_DIR, and nothing in fetch_mode locks
   either. A step is one run's next file-system or network operation. *)

RaceRuns == {1, 2}

\* Both runs start on the same aggregated file of one row and on an empty
\* ARTICLES_DIR.
InitRace ==
    /\ aggregated = [exists |-> TRUE, lines |-> AggregatedLines(1)]
    /\ notes = [p \in {} |-> OldNote]
    /\ run = [r \in RaceRuns |-> InitRun]

NextRace ==
    \E r \in RaceRuns :
        \/ Start(r)
        \/ NextUrl(r)
        \/ Finish(r)
        \/ GetFails(r)
        \/ GetResponds(r)
        \/ PdfFails(r)
        \/ PdfParses(r)
        \/ PrimaryFails(r)
        \/ PrimaryParses(r)
        \/ FallbackFails(r)
        \/ FallbackParses(r)
        \/ Gate(r)
        \/ SummaryFails(r)
        \/ SummaryReturns(r)
        \/ WriteNote(r)
        \/ OpenFails(r)
        \/ WriteFails(r)

SpecRace == InitRace /\ [][NextRace]_vars

-----------------------------------------------------------------------------
(* clean_filename alone, applied to titles long enough to be truncated *)

\* Characters after the padding of a title.
MaxTail == 3

TailChars == {"a", " ", ".", "/", "\t"}

Padding(n) == [i \in 1..n |-> "a"]

\* The title of section 8 of the specification.
ExampleTitle ==
    <<"A","/","B",":"," ","R","e","p","o","r","t","?","?"," ","2","0","2","4">>

\* Titles of up to FilenameMax + MaxTail characters: the padding brings the
\* tail to the place where the result is cut.
CleanTitles ==
    {ExampleTitle, <<"a","_","B"," ","7",".">>} \cup
    { Padding(n) \o tail :
        n \in {0} \cup ((FilenameMax - MaxTail)..FilenameMax),
        tail \in SeqsUpTo(TailChars, MaxTail) }

InitClean ==
    /\ aggregated = [exists |-> FALSE, lines |-> <<>>]
    /\ notes = [p \in {} |-> OldNote]
    /\ \E title \in CleanTitles :
           run = [r \in Runs |-> [InitRun EXCEPT !.title = title,
                                                 !.pc = "clean_filename"]]

\* Line 152: safe_title = clean_filename(title)
CleanFilename(r) ==
    /\ run[r].pc = "clean_filename"
    /\ Goto(r, [run[r] EXCEPT !.safe_title = clean_filename(run[r].title),
                              !.pc = "cleaned"])
    /\ UNCHANGED <<aggregated, notes>>

NextClean == \E r \in Runs : CleanFilename(r)

SpecClean == InitClean /\ [][NextClean]_vars

-----------------------------------------------------------------------------
(* Claims about fetch_smart_content.  A run at "gate" holds the pair the    *)
(* call returned, with the locals of the call still in view.               *)

AtReturn(r) == run[r].pc = "gate"

\* A text that is a string, empty or not.
Present(text) == text # NoText

\* C1 as stated: every pair fetch_smart_content returns is (None, None),
\* or has a title and a non-empty text.
C1_AsStated ==
    \A r \in Runs :
        AtReturn(r) =>
            \/ run[r].result = Sentinel
            \/ /\ run[r].result.title # None
               /\ Present(run[r].result.text)
               /\ run[r].result.text.len > 0

\* C1 as amended: every pair fetch_smart_content returns is (None, None),
\* or has a text that is a string, possibly empty; a title is never
\* returned with an absent text; the title is absent beside a text only on
\* the fallback path; the text of the primary path is longer than 300.
C1_Amended ==
    \A r \in Runs :
        AtReturn(r) =>
            \/ run[r].result = Sentinel
            \/ /\ Present(run[r].result.text)
               /\ run[r].result.title = None => run[r].result.text.by = "fallback"
               /\ run[r].result.text.by = "primary" =>
                      run[r].result.text.len > PrimaryMinLen

\* The fallback path returns an absent title with a present, empty text.
C1_Witness ==
    \E r \in Runs :
        /\ AtReturn(r)
        /\ run[r].result.title = None
        /\ Present(run[r].result.text)
        /\ run[r].result.text.len = 0

\* C2: when the response is classified as PDF only the PDF extractor runs;
\* its pair is returned when it succeeds and (None, None) when it raises.
C2_PdfOnly ==
    \A r \in Runs :
        run[r].kind = "PDF" =>
            /\ run[r].invoked \subseteq {"pdf"}
            /\ AtReturn(r) =>
                   /\ run[r].invoked = {"pdf"}
                   /\ IF "pdf" \in run[r].raised
                      THEN run[r].result = Sentinel
                      ELSE run[r].result.text.by = "pdf"

\* A PDF whose extraction raised has returned (None, None).
C2_Witness ==
    \E r \in Runs :
        /\ AtReturn(r)
        /\ run[r].kind = "PDF"
        /\ "pdf" \in run[r].raised
        /\ run[r].result = Sentinel

\* C3: when the primary extractor returns a text of at least 301
\* characters, that (title, text) is the result and the fallback extractor
\* is not invoked.
C3_PrimaryVerbatim ==
    \A r \in Runs :
        (/\ run[r].primary # Pending
         /\ run[r].primary.text.len >= PrimaryMinLen + 1) =>
            /\ AtReturn(r)
            /\ run[r].result = run[r].primary
            /\ "fallback" \notin run[r].invoked

\* The primary extractor's text of exactly 301 characters is returned.
C3_Witness ==
    \E r \in Runs :
        /\ AtReturn(r)
        /\ run[r].primary # Pending
        /\ run[r].primary.text.len = PrimaryMinLen + 1
        /\ run[r].result = run[r].primary

\* The primary extractor raised, or returned a text of 300 characters or
\* fewer.
PrimaryRejected(r) ==
    \/ "primary" \in run[r].raised
    \/ /\ run[r].primary # Pending
       /\ run[r].primary.text.len <= PrimaryMinLen

\* C4: when the primary extractor raises or returns 300 characters or
\* fewer, the fallback extractor runs and the pair returned is the fallback
\* extractor's title and text, never the primary's title or text ((None,
\* None) when the fallback extractor itself raises).
C4_FallbackOnly ==
    \A r \in Runs :
        (AtReturn(r) /\ PrimaryRejected(r)) =>
            /\ "fallback" \in run[r].invoked
            /\ IF "fallback" \in run[r].raised
               THEN run[r].result = Sentinel
               ELSE /\ run[r].result = run[r].fallback
                    /\ run[r].result.text.by = "fallback"

\* A short primary text and a different title from the fallback extractor:
\* the fallback's pair is returned.
C4_Witness ==
    \E r \in Runs :
        /\ AtReturn(r)
        /\ run[r].primary # Pending
        /\ run[r].primary.text.len = PrimaryMinLen
        /\ run[r].primary.title # run[r].fallback.title
        /\ run[r].result = run[r].fallback

\* C5: no exception leaves fetch_smart_content; a transport failure returns
\* (None, None) with no extractor invoked; a failure of the PDF or of the
\* fallback extractor returns (None, None); a failure of the primary
\* extractor leads to the fallback extractor.
C5_NoEscape ==
    \A r \in Runs :
        /\ "fetch_smart_content" \notin run[r].escaped
        /\ run[r].raised # {} => run[r].pc \in {"gate", "fallback"}
        /\ AtReturn(r) =>
               /\ "get" \in run[r].raised =>
                      run[r].result = Sentinel /\ run[r].invoked = {}
               /\ "pdf" \in run[r].raised => run[r].result = Sentinel
               /\ "fallback" \in run[r].raised => run[r].result = Sentinel
               /\ "primary" \in run[r].raised => "fallback" \in run[r].invoked

\* A transport failure has returned (None, None).
C5_Witness ==
    \E r \in Runs :
        /\ AtReturn(r)
        /\ "get" \in run[r].raised
        /\ run[r].result = Sentinel

\* The path of a URL scheme://host/path?query#fragment.
UrlPath(url) ==
    LET after == SubSeq(url, Len(Http) + 4, Len(url))
        slash == IF \E i \in DOMAIN after : after[i] = "/"
                 THEN CHOOSE i \in DOMAIN after :
                          after[i] = "/" /\ \A j \in 1..(i - 1) : after[j] # "/"
                 ELSE Len(after) + 1
        rest  == SubSeq(after, slash, Len(after))
        stop  == IF \E i \in DOMAIN rest : rest[i] \in {"?", "#"}
                 THEN CHOOSE i \in DOMAIN rest :
                          /\ rest[i] \in {"?", "#"}
                          /\ \A j \in 1..(i - 1) : rest[j] \notin {"?", "#"}
                 ELSE Len(rest) + 1
    IN  SubSeq(rest, 1, stop - 1)

\* The last four characters of s are ".pdf" in some case.
EndsInPdf(s) ==
    /\ Len(s) >= Len(DotPdf)
    /\ \A i \in DOMAIN DotPdf :
           LowerChar(s[Len(s) - Len(DotPdf) + i]) = DotPdf[i]

\* The Content-Type header holds "application/pdf" in some case.
HeaderSaysPdf(header) ==
    /\ header # None
    /\ \E i \in 1..Len(header) :
           /\ i + Len(ApplicationPdf) - 1 <= Len(header)
           /\ \A j \in DOMAIN ApplicationPdf :
                  LowerChar(header[i + j - 1]) = ApplicationPdf[j]

Classified(r) == run[r].pc \in {"pdf", "primary"}

\* C6 as stated: the kind is PDF if and only if the path of the URL ends
\* in ".pdf" or the Content-Type header holds "application/pdf".
C6_AsStated ==
    \A r \in Runs :
        Classified(r) =>
            (run[r].kind = "PDF" <=>
                 EndsInPdf(UrlPath(run[r].url)) \/ HeaderSaysPdf(run[r].header))

\* C6 as amended: the kind is PDF if and only if the whole URL string ends
\* in ".pdf" (in any case) or the Content-Type header holds
\* "application/pdf" (in any case); otherwise, and without the header, HTML.
C6_Amended ==
    \A r \in Runs :
        Classified(r) =>
            /\ run[r].kind \in {"PDF", "HTML"}
            /\ run[r].kind = "PDF" <=>
                   EndsInPdf(run[r].url) \/ HeaderSaysPdf(run[r].header)
            /\ run[r].pc = "pdf" <=> run[r].kind = "PDF"

\* A URL whose query string ends in ".pdf", and whose path does not, is
\* classified as PDF without a PDF Content-Type.
C6_Witness ==
    \E r \in Runs :
        /\ Classified(r)
        /\ run[r].kind = "PDF"
        /\ ~EndsInPdf(UrlPath(run[r].url))
        /\ ~HeaderSaysPdf(run[r].header)

-----------------------------------------------------------------------------
(* Claims about fetch_mode and get_ai_summary *)

\* The cells of a table row "| a | b | c |", trimmed; no cells for a line
\* that is not a row.
TableCells(line) ==
    LET row == Strip(line)
    IN  IF Len(row) >= 2 /\ Head(row) = "|" /\ row[Len(row)] = "|"
        THEN LET cells == Split(SubSeq(row, 2, Len(row) - 1), "|")
             IN  [i \in DOMAIN cells |-> Strip(cells[i])]
        ELSE <<>>

\* The URL column of the table "Date | Source Note | URL": the third cell
\* of each row that holds a URL there.
RECURSIVE TableUrls(_)
TableUrls(lines) ==
    IF lines = <<>> THEN <<>>
    ELSE LET cells == TableCells(Head(lines))
         IN  (IF Len(cells) >= 3 /\ StartsWith(cells[3], Http)
              THEN <<cells[3]>> ELSE <<>>) \o TableUrls(Tail(lines))

\* C7: a run over a file with n URL rows calls fetch_smart_content once, in
\* the order of the file, for each of the first min(5, n) URLs of the URL
\* column and for no other URL: at each call the URLs fetched so far are
\* the first ones of the column, at most min(5, n), and when the run is
\* done they are min(5, n).  Whatever fails for one URL, no exception
\* leaves the loop, and the run is back at the head of the loop with one
\* more URL counted as processed.
C7_CappedInOrder ==
    \A r \in Runs :
        /\ "fetch_mode" \notin run[r].escaped
        /\ run[r].pc # "aborted"
        /\ run[r].pc = "loop" => run[r].idx = Len(run[r].fetched)
        /\ run[r].pc \in {"get", "done"} =>
               LET expected == TableUrls(aggregated.lines)
                   m == Min(ProcessLimit, Len(expected))
               IN  /\ Len(run[r].fetched) <= m
                   /\ run[r].fetched = SubSeq(expected, 1, Len(run[r].fetched))
                   /\ run[r].pc = "get" => run[r].url = expected[Len(run[r].fetched)]
                   /\ run[r].pc = "done" => Len(run[r].fetched) = m

\* A file of six URL rows: the run is done after five fetches, the last of
\* which ended in an exception.
C7_Witness ==
    \E r \in Runs :
        /\ run[r].pc = "done"
        /\ Len(TableUrls(aggregated.lines)) > ProcessLimit
        /\ Len(run[r].fetched) = ProcessLimit
        /\ run[r].outcome = "failed"

\* A text that is absent, empty, or shorter than 100 characters.
TooShort(text) == text = NoText \/ text.len = 0 \/ text.len < CallerMinLen

\* C8: when fetch_smart_content returns a text that is absent, empty or
\* shorter than 100 characters, the step of fetch_mode ends the iteration
\* as inaccessible and leaves the notes as they are; the summarization
\* service is called and a note is written only for a text that is not
\* such; a fallback text of 100 to 300 characters is not inaccessible, and
\* goes on to the summarization unless its note exists.
C8_CallerGate ==
    [][\A r \in Runs :
          /\ (run[r].pc = "gate" /\ TooShort(run[r].result.text)) =>
                 /\ run'[r].pc = "loop"
                 /\ run'[r].outcome = "inaccessible"
                 /\ notes' = notes
          /\ (/\ run[r].pc = "gate"
              /\ run[r].result.text.by = "fallback"
              /\ run[r].result.text.len >= CallerMinLen
              /\ run[r].result.text.len <= PrimaryMinLen) =>
                 \/ run'[r].pc = "summary"
                 \/ run'[r].pc = "loop" /\ run'[r].outcome = "exists"
          /\ run[r].pc \in {"summary", "write"} => ~TooShort(run[r].result.text)
          /\ notes' # notes => \E w \in Runs : run[w].pc = "write"
      ]_vars

\* An iteration has ended as inaccessible.
C8_Witness ==
    \E r \in Runs :
        /\ run[r].pc = "loop"
        /\ run[r].idx >= 1
        /\ run[r].outcome = "inaccessible"

\* C9: no exception leaves get_ai_summary; the step that calls it leaves
\* the notes as they are, and goes on to write the note only with a
\* non-empty summary: with None or an empty summary the iteration ends and
\* no note of that URL is created or modified.
C9_SummaryFailure ==
    [][\A r \in Runs :
          /\ "get_ai_summary" \notin run'[r].escaped
          /\ run[r].pc = "summary" =>
                 /\ notes' = notes
                 /\ \/ run'[r].pc = "write" /\ Truthy(run'[r].summary)
                    \/ run'[r].pc = "loop" /\ run'[r].outcome = "nosummary"
          /\ run[r].pc = "write" => Truthy(run[r].summary)
          /\ notes' # notes => \E w \in Runs : run[w].pc = "write"
      ]_vars

\* An iteration has ended without a summary.
C9_Witness ==
    \E r \in Runs :
        /\ run[r].pc = "loop"
        /\ run[r].outcome = "nosummary"

-----------------------------------------------------------------------------
(* Claim about clean_filename *)

Allowed(c) == IsAlnum(c) \/ c \in {" ", ".", "_"}

\* The characters of title that are allowed, in their order: those of
\* title without its last character, and then the last if it is allowed.
RECURSIVE AllowedOnly(_)
AllowedOnly(title) ==
    IF title = <<>> THEN <<>>
    ELSE LET before == AllowedOnly(SubSeq(title, 1, Len(title) - 1))
             last == title[Len(title)]
         IN  IF Allowed(last) THEN Append(before, last) ELSE before

\* s up to its last character that is not whitespace.
Trimmed(s) ==
    LET last == {i \in DOMAIN s : s[i] \notin Whitespace}
    IN  IF last = {} THEN <<>>
        ELSE SubSeq(s, 1, CHOOSE i \in last : \A j \in last : j <= i)

Underscored(s) == [i \in DOMAIN s |-> IF s[i] = " " THEN "_" ELSE s[i]]

\* C10: clean_filename(title) is the allowed characters of title in their
\* order, trimmed of trailing whitespace, each space replaced by an
\* underscore, cut to its first 60 characters; so it has at most 60
\* characters, no space, and only alphanumerics, periods and underscores.
C10_CleanFilename ==
    \A r \in Runs :
        run[r].pc = "cleaned" =>
            LET expected == Underscored(Trimmed(AllowedOnly(run[r].title)))
            IN  /\ run[r].safe_title = SubSeq(expected, 1, Min(FilenameMax, Len(expected)))
                /\ Len(run[r].safe_title) <= FilenameMax
                /\ \A i \in DOMAIN run[r].safe_title :
                       /\ run[r].safe_title[i] # " "
                       /\ IsAlnum(run[r].safe_title[i]) \/ run[r].safe_title[i] \in {".", "_"}

\* A title whose 60th allowed character is a space followed by more: the
\* result is cut after the underscore that replaced it.
C10_Witness ==
    \E r \in Runs :
        /\ run[r].pc = "cleaned"
        /\ Len(run[r].title) > FilenameMax
        /\ Len(run[r].safe_title) = FilenameMax
        /\ run[r].safe_title[FilenameMax] = "_"
        /\ \E i \in DOMAIN run[r].title : ~Allowed(run[r].title[i])

\* C11: the existence test of line 155 and the write of lines 176-177 are
\* two steps of a run, and steps of another run may come between them. The
\* test and the summarization call leave ARTICLES_DIR as it is, so that a
\* run that found its note path absent has reserved nothing; a run goes on
\* to the summarization only when it found the path absent; and the write
\* looks at nothing: it puts the writer's note at the path and leaves the
\* other notes alone, whether or not the path has come to exist since the
\* test.
C11_CheckThenWrite ==
    [][ \A r \in RaceRuns :
          run'[r] # run[r] =>
              /\ run[r].pc \in {"gate", "summary"} => notes' = notes
              /\ (run[r].pc = "gate" /\ run'[r].pc = "summary") =>
                     NotePath(run'[r].safe_title) \notin DOMAIN notes
              /\ (run[r].pc = "write" /\ run'[r].outcome = "saved") =>
                     LET note_path == NotePath(run[r].safe_title)
                     IN  /\ DOMAIN notes' = DOMAIN notes \cup {note_path}
                         /\ notes'[note_path] =
                                NoteContent(run[r].url, run[r].title, run[r].summary)
                         /\ \A q \in DOMAIN notes \ {note_path} : notes'[q] = notes[q]
      ]_vars

\* Both runs have ended their iteration for the same URL by saving a note,
\* and ARTICLES_DIR holds one note of that URL, with the summary the second
\* run obtained: both runs passed the existence test for that path before
\* either wrote it, both called the summarization service, the first run
\* wrote the path, and the second run's write replaced the first run's note.
C11_Witness ==
    \E note_path \in DOMAIN notes :
        /\ \A r \in RaceRuns : run[r].pc = "loop" /\ run[r].outcome = "saved"
        /\ run[1].url = run[2].url
        /\ notes[note_path].url = run[1].url
        /\ \A q \in DOMAIN notes : notes[q].url = run[1].url => q = note_path
        /\ notes[note_path].summary = Summaries[2]

====
